---------------------------- MODULE Spec2Model ----------------------------
(***************************************************************************)
(* Lunagis illumination map generator: the streaming driver of             *)
(* run_mission.py (__main__), the engine's frame generator, the horizon    *)
(* lookup and the circular-segment physics.                                *)
(*                                                                         *)
(* Time is counted in whole hours.  The output sink is the netCDF dataset: *)
(* nc_times and nc_illum share the unlimited time dimension, so a write at *)
(* index i grows both to length i+1 and pads what was not written with     *)
(* FILL.                                                                   *)
(***************************************************************************)
EXTENDS Integers, Sequences, FiniteSets, TLC

\* ------------------------------------------------------------------ bounds
MaxStart == 1      \* start instants 0..MaxStart (hours)
MaxSpan  == 26     \* end - start ranges over -1..MaxSpan (hours)
MaxStep  == 3      \* configured steps range over -1..MaxStep (hours)
MaxIdx   == MaxSpan + 2   \* cap on the frame counter of a run that never ends

\* --------------------------------------------------------- program constants
RealDEM_nparams == 2      \* RealDEM.__init__(self, meta_path, mask_path)
MainCall_nargs  == 3      \* RealDEM(output_meta, output_horizon, cfg)
DefaultStep     == 1      \* cfg.get(...).get('time_step_hours', 1)
SyncEvery       == 24     \* if idx % 24 == 0: ds.sync()
GenStep         == 1      \* current_time += timedelta(hours=1)

kernels == {"naif0012.tls", "pck00010.tpc", "de440.bsp",
            "moon_pa_de421_1900-2050.bpc", "moon_080317.tf"}

\* An entry of a netCDF variable is <<v>> once v is written, FILL before.
FILL == <<>>
None == "None"

VARIABLES
    entry,            \* "main": run_mission.py as a script; "generator": the engine's generator
    dem_nargs,        \* positional arguments the RealDEM call passes
    meta_exists,      \* the DEM metadata file exists
    mask_exists,      \* the horizon-profile file exists
    kernels_present,  \* the kernel files in input_data
    pc,               \* position in the program
    pending,          \* the exception in flight, or None
    outcome,          \* "running" | "normal" | "raised": what the caller sees
    cfg_start, cfg_end, \* cfg['mission']['start_date'] and ['end_date'] (hours)
    start, end,       \* mission start and end (hours); 0 until they are parsed
    time_step_hours,  \* the step the loop uses; 0 until line 229
    cfg_step,         \* the configured step: <<>> when the config has none
    ds,               \* __main__'s variable ds: None or "ds"
    sink,             \* the dataset itself: "unopened" | "open" | "closed"
    closes,           \* number of ds.close() calls
    late_ops,         \* writes or syncs issued to a closed sink
    nc_times,         \* the time coordinate variable
    nc_illum,         \* the illumination variable (one entry per time index)
    synced,           \* length of the time dimension at the last ds.sync()
    idx,
    current_time,
    spk_calls,        \* spice.spkpos calls since the last committed frame
    sun_vec, sun_radius, geometry, horizon_grid, illum_map,
    yielded,          \* what the generator has yielded so far
    stop,             \* history: what stopped the run and what was committed then
    lk_in, lk_out,    \* get_horizon_elevation_vectorized: argument, and <<result>> once called
    ph_in, ph_out,    \* calculate_circular_segment_area: arguments, and <<result>> once called
    dem_in, dem_out,  \* RealDEM(meta_path, mask_path): the metadata read, and <<object>> once built
    pk_in, pk_out     \* nc_illum[idx] = illum_map: the values assigned, and <<stored>> once written

\* The state of a run of the driver or of the generator.
driver == <<entry, dem_nargs, meta_exists, mask_exists, kernels_present, pc,
            pending, outcome, cfg_start, cfg_end, start, end, time_step_hours,
            cfg_step, ds, sink,
            closes, late_ops, nc_times, nc_illum, synced, idx, current_time,
            spk_calls, sun_vec, sun_radius, geometry, horizon_grid, illum_map,
            yielded, stop>>
\* The calls of the two array functions, examined on their own.
calls == <<lk_in, lk_out, ph_in, ph_out, dem_in, dem_out, pk_in, pk_out>>

vars == <<driver, calls>>

\* What no step of a run changes.
inputs == <<entry, dem_nargs, meta_exists, mask_exists, kernels_present, calls>>
config == <<cfg_start, cfg_end, cfg_step, start, end>>
sinkv  == <<sink, closes, late_ops, nc_times, nc_illum, synced>>
frame  == <<spk_calls, sun_vec, sun_radius, geometry, horizon_grid, illum_map>>

Max(a, b) == IF a >= b THEN a ELSE b

\* ------------------------------------------------------------------- sink
\* A netCDF variable on the unlimited dimension: assigning index i (0-based)
\* grows the dimension to i+1; entries never written read as FILL.
NcAssign(var, i, v) ==
    [k \in 1..Max(Len(var), i + 1) |->
        IF k = i + 1 THEN <<v>> ELSE IF k <= Len(var) THEN var[k] ELSE FILL]

\* Both variables share the time dimension: growing one pads the other.
NcPad(var, n) == [k \in 1..Max(Len(var), n) |-> IF k <= Len(var) THEN var[k] ELSE FILL]

\* The config's mission.time_step_hours: <<>> when absent, <<c>> when set to c.
Steps == {<<>>} \cup {<<c>> : c \in -1..MaxStep}
NoStop == [kind |-> None, at |-> None, times |-> <<>>, illum |-> <<>>]

\* ------------------------------------------------------------------- Init
\* run_mission.py line 212 has loaded cfg (or the generator is about to be
\* called); nothing else has run.  The script
\* calls RealDEM with MainCall_nargs arguments; the constructor declares
\* RealDEM_nparams.  Both call forms are explored, so that the code behind the
\* call is explored too.
NoGrid == dem_in = <<>> /\ dem_out = <<>>
NoWrite == pk_in = <<>> /\ pk_out = <<>>
NoLookup == lk_in = <<>> /\ lk_out = <<>>
NoPhysics == ph_in = <<>> /\ ph_out = <<>>
NoCalls == NoLookup /\ NoPhysics /\ NoGrid /\ NoWrite

\* Nothing of a run has happened yet.
Unstarted ==
    /\ pending = None
    /\ outcome = "running"
    /\ start = 0 /\ end = 0
    /\ time_step_hours = 0
    /\ ds = None
    /\ sink = "unopened" /\ closes = 0 /\ late_ops = 0
    /\ nc_times = <<>> /\ nc_illum = <<>> /\ synced = 0
    /\ idx = 0 /\ current_time = 0
    /\ spk_calls = 0
    /\ sun_vec = None /\ sun_radius = None /\ geometry = None
    /\ horizon_grid = None /\ illum_map = None
    /\ yielded = <<>>
    /\ stop = NoStop

\* No run at all: a function of the program is called on its own.
NoRun ==
    /\ entry = "call" /\ pc = "call"
    /\ dem_nargs = RealDEM_nparams
    /\ meta_exists = TRUE /\ mask_exists = TRUE /\ kernels_present = kernels
    /\ cfg_start = 0 /\ cfg_end = 0 /\ cfg_step = <<>>
    /\ Unstarted

Init ==
    /\ NoCalls
    /\ \/ /\ entry = "main"
          /\ dem_nargs \in {RealDEM_nparams, MainCall_nargs}
          /\ meta_exists \in BOOLEAN
          /\ mask_exists \in BOOLEAN
          /\ kernels_present \in SUBSET kernels
          /\ cfg_start \in 0..MaxStart
          /\ \E span \in -1..MaxSpan : cfg_end = cfg_start + span
          /\ pc = "dem"
       \/ /\ entry = "generator"
          /\ dem_nargs = RealDEM_nparams
          /\ meta_exists = TRUE
          /\ mask_exists = TRUE
          /\ kernels_present = kernels
          /\ cfg_start = 0 /\ cfg_end = 0
          /\ pc = "g_call"
    /\ cfg_step \in Steps
    /\ Unstarted

\* An exception raised outside the try block propagates to the caller.
Propagate(exc) ==
    /\ pending' = exc
    /\ pc' = "return"

\* ------------------------------------------------------- initialisation
\* dem = RealDEM(cfg['paths']['output_meta'], cfg['paths']['output_horizon'], cfg)
RealDEM_init ==
    /\ pc = "dem"
    /\ IF dem_nargs # RealDEM_nparams
         THEN Propagate("TypeError")
         ELSE IF ~meta_exists                \* open(meta_path, 'r')
         THEN Propagate("FileNotFoundError")
         ELSE IF ~mask_exists                \* if not os.path.exists(mask_path)
         THEN Propagate("FileNotFoundError")
         ELSE pc' = "ephem" /\ pending' = pending
    /\ UNCHANGED <<inputs, config, outcome, time_step_hours, ds, sinkv, idx,
                   current_time, frame, yielded, stop>>

\* Mutant of KernelMissing: only the first kernel of the list is looked for.
KernelMissingFirstOnly == "naif0012.tls" \notin kernels_present

\* for k in kernels: if not os.path.exists(path): raise FileNotFoundError
KernelMissing == \E k \in kernels : k \notin kernels_present

\* ephem = RealEphemeris("input_data")
RealEphemeris_init ==
    /\ pc = "ephem"
    /\ IF KernelMissing
         THEN Propagate("FileNotFoundError")
         ELSE pc' = "dates" /\ pending' = pending
    /\ UNCHANGED <<inputs, config, outcome, time_step_hours, ds, sinkv, idx,
                   current_time, frame, yielded, stop>>

\* start, end = datetime.fromisoformat(...); ds = None; try: init_netcdf(...)
ParseDates ==
    /\ pc = "dates"
    /\ start' = cfg_start
    /\ end' = cfg_end
    /\ ds' = None
    /\ pc' = "nc_open"
    /\ UNCHANGED <<inputs, cfg_start, cfg_end, cfg_step, pending, outcome, time_step_hours, sinkv,
                   idx, current_time, frame, yielded, stop>>

\* init_netcdf: ds = nc.Dataset(output_path, 'w', format='NETCDF4')
NcOpen ==
    /\ pc = "nc_open"
    /\ sink' = "open"
    /\ pc' = "nc_setup"
    /\ UNCHANGED <<inputs, config, pending, outcome, time_step_hours, ds, closes,
                   late_ops, nc_times, nc_illum, synced, idx, current_time, frame,
                   yielded, stop>>

\* init_netcdf: attributes, dimensions, crs, coordinate and data variables
NcSetup ==
    /\ pc = "nc_setup"
    /\ pc' = "nc_bind"
    /\ UNCHANGED <<inputs, config, pending, outcome, time_step_hours, ds, sinkv,
                   idx, current_time, frame, yielded, stop>>

\* return ds, times, illum; and the assignment to ds, nc_times, nc_illum
NcBind ==
    /\ pc = "nc_bind"
    /\ ds' = "ds"
    /\ pc' = "loop_init"
    /\ UNCHANGED <<inputs, config, pending, outcome, time_step_hours, sinkv, idx,
                   current_time, frame, yielded, stop>>

\* ------------------------------------------------------ simulation loop
\* time_step_hours = cfg.get('mission', {}).get('time_step_hours', 1)
ConfiguredStep(c) == IF c = <<>> THEN DefaultStep ELSE c[1]

\* idx = 0; time_step_hours = ...; current_time = start
LoopInit ==
    /\ pc = "loop_init"
    /\ idx' = 0
    /\ time_step_hours' = ConfiguredStep(cfg_step)
    /\ current_time' = start
    /\ pc' = "loop_test"
    /\ UNCHANGED <<inputs, config, pending, outcome, ds, sinkv, frame,
                   yielded, stop>>

\* while current_time <= end: ...; print("Mission Complete.")
LoopTest ==
    /\ pc = "loop_test"
    /\ IF current_time <= end
         THEN idx < MaxIdx /\ pc' = "sunvec"
         ELSE pc' = "finally"
    /\ UNCHANGED <<inputs, config, pending, outcome, time_step_hours, ds, sinkv,
                   idx, current_time, frame, yielded, stop>>

\* RealEphemeris.get_sun_vector_body_fixed: one spice.spkpos query at `time`
SpkPos(time, n) == [t |-> time, q |-> n + 1]

\* sun_vec = ephem.get_sun_vector_body_fixed(current_time)
GetSunVector ==
    /\ pc = "sunvec"
    /\ sun_vec' = SpkPos(current_time, spk_calls)
    /\ spk_calls' = spk_calls + 1
    /\ pc' = "radius"
    /\ UNCHANGED <<inputs, config, pending, outcome, time_step_hours, ds, sinkv,
                   idx, current_time, sun_radius, geometry, horizon_grid,
                   illum_map, yielded, stop>>

\* RealEphemeris.get_apparent_sun_radius: sun_vec = self.get_sun_vector_body_fixed(time),
\* then arcsin(SUN_RADIUS_KM / |sun_vec|): the radius of the query it makes itself
ApparentSunRadius(time, n) == [of |-> SpkPos(time, n)]

\* sun_radius = ephem.get_apparent_sun_radius(current_time)
GetSunRadius ==
    /\ pc = "radius"
    /\ sun_radius' = ApparentSunRadius(current_time, spk_calls)
    /\ spk_calls' = spk_calls + 1
    /\ pc' = "geometry"
    /\ UNCHANGED <<inputs, config, pending, outcome, time_step_hours, ds, sinkv,
                   idx, current_time, sun_vec, geometry, horizon_grid, illum_map,
                   yielded, stop>>

\* az_grid, el_grid = ephem.calculate_grid_geometry(sun_vec, dem)
Geometry ==
    /\ pc = "geometry"
    /\ geometry' = [vec |-> sun_vec]
    /\ pc' = "horizon"
    /\ UNCHANGED <<inputs, config, pending, outcome, time_step_hours, ds, sinkv,
                   idx, current_time, spk_calls, sun_vec, sun_radius, horizon_grid,
                   illum_map, yielded, stop>>

\* horizon_grid = dem.get_horizon_elevation_vectorized(az_grid)
Horizon ==
    /\ pc = "horizon"
    /\ horizon_grid' = [az |-> geometry]
    /\ pc' = "physics"
    /\ UNCHANGED <<inputs, config, pending, outcome, time_step_hours, ds, sinkv,
                   idx, current_time, spk_calls, sun_vec, sun_radius, geometry,
                   illum_map, yielded, stop>>

\* illum_map = engine.calculate_circular_segment_area(el_grid, horizon_grid, sun_radius)
Physics ==
    /\ pc = "physics"
    /\ illum_map' = [el |-> geometry, hz |-> horizon_grid, r |-> sun_radius]
    /\ pc' = "wtime"
    /\ UNCHANGED <<inputs, config, pending, outcome, time_step_hours, ds, sinkv,
                   idx, current_time, spk_calls, sun_vec, sun_radius, geometry,
                   horizon_grid, yielded, stop>>

\* A write or sync on a dataset that is not open is an error of its own.
LateOps == IF sink = "open" THEN late_ops ELSE late_ops + 1

\* hours_elapsed = (current_time - start).total_seconds() / 3600.0
\* nc_times[idx] = hours_elapsed
WriteTime ==
    /\ pc = "wtime"
    /\ nc_times' = NcAssign(nc_times, idx, current_time - start)
    /\ nc_illum' = NcPad(nc_illum, idx + 1)
    /\ late_ops' = LateOps
    /\ pc' = "wframe"
    /\ UNCHANGED <<inputs, config, pending, outcome, time_step_hours, ds, sink,
                   closes, synced, idx, current_time, frame, yielded, stop>>

\* nc_illum[idx, :, :] = illum_map
WriteFrame ==
    /\ pc = "wframe"
    /\ nc_illum' = NcAssign(nc_illum, idx, illum_map)
    /\ nc_times' = NcPad(nc_times, idx + 1)
    /\ late_ops' = LateOps
    /\ spk_calls' = 0
    /\ pc' = "checkpoint"
    /\ UNCHANGED <<inputs, config, pending, outcome, time_step_hours, ds, sink,
                   closes, synced, idx, current_time, sun_vec, sun_radius,
                   geometry, horizon_grid, illum_map, yielded, stop>>

\* Mutant of CheckpointDue: the checkpoint falls one frame early.
CheckpointDueEarly(i) == (i + 1) % SyncEvery = 0

\* if idx % 24 == 0
CheckpointDue(i) == i % SyncEvery = 0

\* if idx % 24 == 0: print(...); ds.sync()
Checkpoint ==
    /\ pc = "checkpoint"
    /\ IF CheckpointDue(idx)
         THEN synced' = Len(nc_times) /\ late_ops' = LateOps
         ELSE UNCHANGED <<synced, late_ops>>
    /\ pc' = "advance"
    /\ UNCHANGED <<inputs, config, pending, outcome, time_step_hours, ds, sink,
                   closes, nc_times, nc_illum, idx, current_time, frame, yielded,
                   stop>>

\* current_time += timedelta(hours=time_step_hours)
NextTime(t, step) == t + step

\* Mutant of NextIdx: the counter skips an index.
NextIdxSkips(i) == i + 2

\* idx += 1
NextIdx(i) == i + 1

\* idx += 1; current_time += timedelta(hours=time_step_hours)
Advance ==
    /\ pc = "advance"
    /\ idx' = NextIdx(idx)
    /\ current_time' = NextTime(current_time, time_step_hours)
    /\ pc' = "loop_test"
    /\ UNCHANGED <<inputs, config, pending, outcome, time_step_hours, ds, sinkv,
                   frame, yielded, stop>>

\* ------------------------------------------------- try / except / finally
\* The statements of the try block, where an exception or a user interruption
\* may surface.  The return of init_netcdf and the binding of ds are one step.
TryPcs == {"nc_open", "nc_setup", "loop_init", "loop_test", "sunvec", "radius",
           "geometry", "horizon", "physics", "wtime", "wframe", "checkpoint",
           "advance"}
LoopPcs == TryPcs \ {"nc_open", "nc_setup", "loop_init"}

\* except KeyboardInterrupt: ... / except Exception as e: ...
Handler(exc) == IF exc = "KeyboardInterrupt" THEN "except_ki" ELSE "except_exc"

\* An exception (an error of any computation or write) or a user interruption
\* is raised by the statement at pc, which then has no effect.
Raise ==
    /\ pc \in TryPcs
    /\ \E exc \in {"KeyboardInterrupt", "Exception"} :
          /\ pending' = exc
          /\ pc' = Handler(exc)
          /\ stop' = [kind |-> exc, at |-> pc, times |-> nc_times, illum |-> nc_illum]
    /\ UNCHANGED <<inputs, config, outcome, time_step_hours, ds, sinkv, idx,
                   current_time, frame, yielded>>

\* except KeyboardInterrupt: print("Simulation interrupted by user. Saving progress...")
ExceptKeyboardInterrupt ==
    /\ pc = "except_ki"
    /\ pending' = None
    /\ pc' = "finally"
    /\ UNCHANGED <<inputs, config, outcome, time_step_hours, ds, sinkv, idx,
                   current_time, frame, yielded, stop>>

\* Mutant of Reraise: the handler swallows the exception.
ReraiseSwallowed(exc) == None

\* raise e
Reraise(exc) == exc

\* except Exception as e: print(...); raise e
ExceptException ==
    /\ pc = "except_exc"
    /\ pending' = Reraise(pending)
    /\ pc' = "finally"
    /\ UNCHANGED <<inputs, config, outcome, time_step_hours, ds, sinkv, idx,
                   current_time, frame, yielded, stop>>

\* if ds:
SinkHeld == ds # None

\* finally: if ds: ds.close()
Finally ==
    /\ pc = "finally"
    /\ IF SinkHeld
         THEN sink' = "closed" /\ closes' = closes + 1
         ELSE UNCHANGED <<sink, closes>>
    /\ pc' = "return"
    /\ UNCHANGED <<inputs, config, pending, outcome, time_step_hours, ds,
                   late_ops, nc_times, nc_illum, synced, idx, current_time, frame,
                   yielded, stop>>

\* The script ends: normally, or with the exception still in flight.
Return ==
    /\ pc = "return"
    /\ outcome' = IF pending = None THEN "normal" ELSE "raised"
    /\ pc' = "exit"
    /\ UNCHANGED <<inputs, config, pending, time_step_hours, ds, sinkv, idx,
                   current_time, frame, yielded, stop>>

\* ------------------------------------ IlluminationEngine.run_simulation_generator
\* run_simulation_generator(start_date, end_date), called on an engine whose dem
\* and ephemeris exist; cfg_step is the step the mission's config asks for.
GenCall ==
    /\ pc = "g_call"
    /\ \E s \in 0..MaxStart, span \in -1..MaxSpan :
          /\ start' = s
          /\ end' = s + span
          /\ current_time' = s
    /\ pc' = "g_test"
    /\ UNCHANGED <<inputs, cfg_start, cfg_end, cfg_step, pending, outcome, time_step_hours, ds, sinkv, idx,
                   frame, yielded, stop>>

\* while current_time <= end_date
GenTest ==
    /\ pc = "g_test"
    /\ pc' = IF current_time <= end THEN "g_sunvec" ELSE "g_done"
    /\ UNCHANGED <<inputs, config, pending, outcome, time_step_hours, ds, sinkv,
                   idx, current_time, frame, yielded, stop>>

\* sun_vec = self.ephemeris.get_sun_vector_body_fixed(current_time)
GenSunVector ==
    /\ pc = "g_sunvec"
    /\ sun_vec' = SpkPos(current_time, spk_calls)
    /\ spk_calls' = spk_calls + 1
    /\ pc' = "g_radius"
    /\ UNCHANGED <<inputs, config, pending, outcome, time_step_hours, ds, sinkv,
                   idx, current_time, sun_radius, geometry, horizon_grid,
                   illum_map, yielded, stop>>

\* sun_radius = self.ephemeris.get_apparent_sun_radius(current_time)
GenSunRadius ==
    /\ pc = "g_radius"
    /\ sun_radius' = ApparentSunRadius(current_time, spk_calls)
    /\ spk_calls' = spk_calls + 1
    /\ pc' = "g_physics"
    /\ UNCHANGED <<inputs, config, pending, outcome, time_step_hours, ds, sinkv,
                   idx, current_time, sun_vec, geometry, horizon_grid, illum_map,
                   yielded, stop>>

\* az_grid, el_grid = ...calculate_grid_geometry(sun_vec, self.dem)
\* horizon_grid = self.dem.get_horizon_elevation_vectorized(az_grid)
\* illum_map = self.calculate_circular_segment_area(el_grid, horizon_grid, sun_radius)
GenPhysics ==
    /\ pc = "g_physics"
    /\ geometry' = [vec |-> sun_vec]
    /\ horizon_grid' = [az |-> geometry']
    /\ illum_map' = [el |-> geometry', hz |-> horizon_grid', r |-> sun_radius]
    /\ pc' = "g_yield"
    /\ UNCHANGED <<inputs, config, pending, outcome, time_step_hours, ds, sinkv,
                   idx, current_time, spk_calls, sun_vec, sun_radius, yielded, stop>>

\* yield current_time, illum_map
GenYield ==
    /\ pc = "g_yield"
    /\ yielded' = Append(yielded, <<current_time, illum_map>>)
    /\ spk_calls' = 0
    /\ pc' = "g_advance"
    /\ UNCHANGED <<inputs, config, pending, outcome, time_step_hours, ds, sinkv,
                   idx, current_time, sun_vec, sun_radius, geometry, horizon_grid,
                   illum_map, stop>>

\* current_time += timedelta(hours=1)
GenAdvance ==
    /\ pc = "g_advance"
    /\ current_time' = current_time + GenStep
    /\ pc' = "g_test"
    /\ UNCHANGED <<inputs, config, pending, outcome, time_step_hours, ds, sinkv,
                   idx, frame, yielded, stop>>

\* ------------------------------------------------------------------- Next
Main ==
    \/ RealDEM_init \/ RealEphemeris_init \/ ParseDates
    \/ NcOpen \/ NcSetup \/ NcBind
    \/ LoopInit \/ LoopTest
    \/ GetSunVector \/ GetSunRadius \/ Geometry \/ Horizon \/ Physics
    \/ WriteTime \/ WriteFrame \/ Checkpoint \/ Advance
    \/ Raise \/ ExceptKeyboardInterrupt \/ ExceptException \/ Finally \/ Return

Generator ==
    \/ GenCall \/ GenTest \/ GenSunVector \/ GenSunRadius \/ GenPhysics
    \/ GenYield \/ GenAdvance

Next == Main \/ Generator

Spec == Init /\ [][Next]_vars

\* ----------------------------------------------------------- vocabulary
MissingRequired == ~meta_exists \/ ~mask_exists \/ kernels \ kernels_present # {}

\* Frame k (0-based) is committed: its elapsed time and its pixel data are in the sink.
Committed(k) == k < Len(nc_illum) /\ nc_times[k + 1] # FILL /\ nc_illum[k + 1] # FILL
CommittedCount == Cardinality({k \in 0..(Len(nc_illum) - 1) : Committed(k)})
\* Committed frames that no ds.sync() has covered yet.
Unflushed == CommittedCount - synced

ComputePcs == {"sunvec", "radius", "geometry", "horizon", "physics"}

\* ------------------------------------------------------------------- C1
\* C1: once the sink has been opened it is closed exactly once on every exit
\* path (completion, interruption, an exception while computing or writing a
\* frame, an exception while the sink is being initialised), and nothing is
\* written or flushed after the close.
C1_ClosedExactlyOnce ==
    /\ closes <= 1
    /\ late_ops = 0
    /\ (pc = "exit" /\ sink # "unopened") => (sink = "closed" /\ closes = 1)

\* ------------------------------------------------------------------- C2
\* C2: a run stopped inside the loop ends as a normal stop when the user
\* interrupted it and re-raises any other exception; either way the sink is
\* closed before the run returns and what was committed at the stop is in the
\* output unchanged.
C2_StopOutcome ==
    stop.at \in LoopPcs =>
        /\ nc_times = stop.times /\ nc_illum = stop.illum
        /\ pc \in {"return", "exit"} => (sink = "closed" /\ closes = 1)
        /\ outcome # "running" =>
              /\ stop.kind = "KeyboardInterrupt" => (outcome = "normal" /\ pending = None)
              /\ stop.kind = "Exception" => (outcome = "raised" /\ pending = "Exception")

C2_Witness ==
    /\ pc = "exit" /\ stop.kind = "KeyboardInterrupt" /\ stop.at = "physics"
    /\ outcome = "normal" /\ sink = "closed" /\ CommittedCount = 2

\* ------------------------------------------------------------------- C3
\* C3: with the DEM metadata, the horizon profile or any one kernel missing the
\* run aborts with an error before the simulation starts: the sink is never
\* opened and no frame is computed or written.
C3_MissingInputAborts ==
    (entry = "main" /\ MissingRequired) =>
        /\ pc \in {"dem", "ephem", "return", "exit"}
        /\ sink = "unopened" /\ ds = None
        /\ nc_times = <<>> /\ nc_illum = <<>>
        /\ spk_calls = 0 /\ idx = 0
        /\ pc = "exit" => outcome = "raised"

C3_Witness ==
    /\ pc = "exit" /\ outcome = "raised" /\ pending = "FileNotFoundError"
    /\ dem_nargs = RealDEM_nparams /\ meta_exists /\ mask_exists
    /\ kernels \ kernels_present = {"moon_080317.tf"}

\* ------------------------------------------------------------------- C4
\* C4: frame k (elapsed time and pixels) is committed before anything of frame
\* k+1 is computed: frames are committed in index order 0,1,2,... without
\* gaps, and at most one computed frame is uncommitted.
C4_CommitBeforeNext ==
    entry = "main" =>
        /\ Len(nc_times) = Len(nc_illum)
        /\ \A k \in 0..(Len(nc_illum) - 2) : Committed(k)
        /\ pc \in ComputePcs \cup {"loop_test", "wtime"} =>
              (Len(nc_illum) = idx /\ CommittedCount = idx)
        /\ pc = "wframe" =>
              (Len(nc_illum) = idx + 1 /\ CommittedCount = idx /\ nc_times[idx + 1] # FILL)
        /\ pc \in {"checkpoint", "advance"} =>
              (Len(nc_illum) = idx + 1 /\ CommittedCount = idx + 1)
        /\ \A k \in 0..(Len(nc_illum) - 1) : Committed(k) =>
              /\ nc_times[k + 1] = <<k * time_step_hours>>
              /\ nc_illum[k + 1][1].el.vec.t = start + k * time_step_hours

C4_Witness ==
    /\ pc = "sunvec" /\ idx = 3 /\ time_step_hours = 2 /\ CommittedCount = 3

\* ------------------------------------------------------------------- C5
\* C5 as stated: a flush follows the commit of frame idx exactly when idx is a
\* multiple of 24, so at every point fewer than 24 committed frames are
\* unflushed.
C5_Original ==
    (entry = "main" /\ sink = "open") => Unflushed < SyncEvery

\* C5 as amended: a flush follows the commit of frame idx exactly when idx is a
\* multiple of 24; at most 24 committed frames are unflushed, and 24 of them
\* only between the commit of a frame whose index is a multiple of 24 and the
\* flush (or, when the run is stopped right there, the close) that follows.
C5_Checkpoint ==
    (entry = "main" /\ sink = "open") =>
        /\ pc = "advance" => synced = (idx - (idx % SyncEvery)) + 1
        /\ Unflushed <= SyncEvery
        /\ Unflushed = SyncEvery =>
              /\ idx % SyncEvery = 0
              /\ pc = "checkpoint" \/ stop.at = "checkpoint"

C5_Witness ==
    /\ pc = "checkpoint" /\ idx = SyncEvery /\ Unflushed = SyncEvery /\ sink = "open"

\* ------------------------------------------------------------------- C6
\* The frames a run from start to end at step s must write.
FrameCount(span, s) == (span \div s) + 1

\* What the loop writes when it runs to completion: FrameCount frames, frame k
\* at elapsed time k * s.
LoopArithmetic ==
    (entry = "main" /\ outcome = "normal" /\ stop.kind = None
        /\ start <= end /\ time_step_hours > 0) =>
        /\ Len(nc_times) = FrameCount(end - start, time_step_hours)
        /\ \A k \in 0..(Len(nc_times) - 1) :
              Committed(k) /\ nc_times[k + 1] = <<k * time_step_hours>>
        /\ sink = "closed"

\* C6: a driver run from start to end (inclusive) at step s hours, start <= end
\* and s > 0, that is given its input files and is not stopped, completes
\* normally and has written floor((end - start) / s) + 1 frames, frame k at
\* elapsed time k * s, before it returns; a run of one hour at the default step
\* yields the elapsed times 0, 1 and two frames.
C6_RunYieldsFrames ==
    (pc = "exit" /\ entry = "main" /\ ~MissingRequired /\ stop.kind = None
        /\ cfg_start <= cfg_end /\ ConfiguredStep(cfg_step) > 0) =>
        /\ outcome = "normal"
        /\ Len(nc_times) = FrameCount(cfg_end - cfg_start, ConfiguredStep(cfg_step))
        /\ \A k \in 0..(Len(nc_times) - 1) :
              Committed(k) /\ nc_times[k + 1] = <<k * ConfiguredStep(cfg_step)>>
        /\ (cfg_end = cfg_start + 1 /\ cfg_step = <<>>) => nc_times = << <<0>>, <<1>> >>

\* ------------------------------------------------------------------- C7
\* C7: the loop ends after finitely many passes for every start, end and
\* configured step: each pass moves current_time forward, by the configured
\* step (one hour when none is configured), in the main loop and in the
\* engine's generator alike.
C7_EveryPassAdvances ==
    [][(pc \in {"advance", "g_advance"} /\ pc' # pc /\ pending' = None) =>
          /\ current_time' > current_time
          /\ current_time' - current_time = ConfiguredStep(cfg_step)]_vars

\* ------------------------------------------------------------------- C8
\* C8: a frame takes one ephemeris query, one geometry transform, one horizon
\* lookup and one physics evaluation, in that order: spkpos is called once
\* between two committed frames, and the sun vector and the apparent radius of
\* the frame come from that one query at the frame's instant.
C8_OneQueryPerFrame ==
    pc \in {"wtime", "g_yield"} =>
        /\ illum_map = [el |-> [vec |-> sun_vec],
                        hz |-> [az |-> [vec |-> sun_vec]],
                        r  |-> sun_radius]
        /\ sun_vec.t = current_time
        /\ sun_radius.of.t = current_time
        /\ spk_calls = 1
        /\ sun_radius.of = sun_vec

\* =================================================================== floats
\* numpy computes on binary floating point.  A number is held here as a whole
\* count of units of 2^-SubBits; the floats are the counts m * 2^j with
\* |m| < 2^MantBits (float64 has 53 such bits), and an inexact result is rounded
\* to the nearest float, ties to the even mantissa.
SubBits  == 2
MantBits == 10
MaxAz    == 400     \* azimuths range over -MaxAz..MaxAz degrees
MaxProfile == 2     \* horizon profiles 1..MaxProfile

RECURSIVE Pow2(_)
Pow2(k) == IF k = 0 THEN 1 ELSE 2 * Pow2(k - 1)

Sub == Pow2(SubBits)          \* units per degree
Abs(n) == IF n < 0 THEN -n ELSE n

\* The spacing of the floats around n.
RECURSIVE Spacing(_, _)
Spacing(n, j) == IF Abs(n) < Pow2(MantBits + j) THEN Pow2(j) ELSE Spacing(n, j + 1)

\* Round to nearest, ties to even.
Fl(n) ==
    LET sp == Spacing(n, 0)
        q  == n \div sp
        r  == n - q * sp
    IN  IF 2 * r < sp THEN q * sp
        ELSE IF 2 * r > sp THEN (q + 1) * sp
        ELSE IF q % 2 = 0 THEN q * sp ELSE (q + 1) * sp

IsFloat(n) == Fl(n) = n

\* C fmod: exact, with the sign of the dividend.
Fmod(a, b) == IF a >= 0 THEN a % b ELSE -((-a) % b)

\* np.mod on floats (npy_remainder): fmod, then the divisor is added when the
\* signs differ; that sum is a floating-point addition.
NpMod(a, b) ==
    LET m == Fmod(a, b)
    IN  IF m # 0 /\ m < 0 THEN Fl(m + b) ELSE m

\* ========================================= RealDEM.get_horizon_elevation_vectorized
Buckets == 360        \* horizon_roi.shape[2]
Hundredths == 100     \* stored values are hundredths of a degree

\* The stored horizon profile of a pixel: int16 hundredths of a degree per bucket.
Profile(p) == [b \in 0..(Buckets - 1) |-> ((b * (p + 2)) % 11) * 25 - 100]

\* az_ceil = (az_floor + 1) % 360
AzCeil(az_floor) == (az_floor + 1) % Buckets

\* get_horizon_elevation_vectorized for one pixel.  The result is scaled by
\* Hundredths * Sub, so that h1 + (h2 - h1) * fraction is a whole number.
\* An index outside -360..359 is numpy's IndexError; a negative one counts
\* from the end.
GetHorizonElevation(azimuth, prof) ==
    LET az       == NpMod(azimuth, Buckets * Sub)
        az_floor == az \div Sub
        az_ceil  == AzCeil(az_floor)
        fraction == az - az_floor * Sub
        At(i)    == IF i < 0 THEN prof[i + Buckets] ELSE prof[i]
    IN  IF az_floor \notin (-Buckets)..(Buckets - 1)
        THEN [err |-> "IndexError", az |-> az, az_floor |-> az_floor,
              az_ceil |-> az_ceil, val |-> 0]
        ELSE [err |-> "none", az |-> az, az_floor |-> az_floor, az_ceil |-> az_ceil,
              val |-> At(az_floor) * Sub + (At(az_ceil) - At(az_floor)) * fraction]

Azimuths == {n \in (-(MaxAz * Sub))..(MaxAz * Sub) : IsFloat(n)}

LookupInit ==
    /\ NoRun
    /\ lk_in \in {<<[az |-> a, p |-> p]>> : a \in Azimuths, p \in 1..MaxProfile}
    /\ lk_out = <<>> /\ NoPhysics /\ NoGrid /\ NoWrite

\* dem.get_horizon_elevation_vectorized(azimuth_grid)
Lookup ==
    /\ lk_in # <<>> /\ lk_out = <<>>
    /\ lk_out' = <<GetHorizonElevation(lk_in[1].az, Profile(lk_in[1].p))>>
    /\ UNCHANGED <<driver, lk_in, ph_in, ph_out, dem_in, dem_out, pk_in, pk_out>>

LookupSpec == LookupInit /\ [][Lookup]_vars

\* ------------------------------------------------------------------- C9
\* The azimuth wrapped into [0, 360) exactly, and the float nearest to it.
Wrapped(a) == a % (Buckets * Sub)

\* The interpolation the claim describes, at the wrapped azimuth w.
Interpolated(w, prof) ==
    LET f == w \div Sub
        c == (f + 1) % Buckets
    IN  prof[f] * Sub + (prof[c] - prof[f]) * (w - f * Sub)

\* C9: for every azimuth, negative ones and ones of 360 and more included, the
\* azimuth is wrapped to a' in [0, 360) (a' the float nearest the exact wrap),
\* the buckets used are floor(a') and the next one modulo 360, both in 0..359,
\* and the result is the linear interpolation of the two stored values,
\* divided by 100: the stored value itself at whole degrees, the midpoint of
\* buckets 359 and 0 at 359.5.
C9_Lookup ==
    lk_out # <<>> =>
        LET a == lk_in[1].az
            out == lk_out[1]
        IN  /\ out.err = "none"
            /\ out.az = Fl(Wrapped(a))
            /\ out.az >= 0 /\ out.az < Buckets * Sub
            /\ out.az_floor = out.az \div Sub
            /\ out.az_ceil = (out.az_floor + 1) % Buckets
            /\ out.az_floor \in 0..(Buckets - 1) /\ out.az_ceil \in 0..(Buckets - 1)
            /\ out.val = Interpolated(out.az, Profile(lk_in[1].p))

\* Where the lookup does what C9 says: everywhere but on the negative azimuths
\* so small that their wrap, 360 - |a|, rounds to 360 itself.
LookupUnlessRoundedTo360 ==
    lk_out # <<>> =>
        LET a == lk_in[1].az
            out == lk_out[1]
        IN  IF Fl(Wrapped(a)) = Buckets * Sub
            THEN a < 0 /\ 2 * Abs(a) <= Spacing(Buckets * Sub, 0) /\ out.err = "IndexError"
            ELSE /\ out.err = "none"
                 /\ out.az = Fl(Wrapped(a)) /\ out.az < Buckets * Sub
                 /\ out.az_floor \in 0..(Buckets - 1) /\ out.az_ceil \in 0..(Buckets - 1)
                 /\ out.val = Interpolated(out.az, Profile(lk_in[1].p))
                 /\ out.az % Sub = 0 => out.val = Profile(lk_in[1].p)[out.az \div Sub] * Sub
                 /\ 2 * out.az = (2 * Buckets - 1) * Sub =>
                       2 * out.val = (Profile(lk_in[1].p)[Buckets - 1]
                                      + Profile(lk_in[1].p)[0]) * Sub

\* ================================ IlluminationEngine.calculate_circular_segment_area
\* The function computes in float64 and stores into a float32 array.  Both are
\* modelled as binary floating point with round to nearest, ties to even, at a
\* reduced precision: Bits64 and Bits32 significant bits.  A value is a whole
\* number of units of 2^-FracBits.
FracBits == 15
Bits64 == 4
Bits32 == 2
NPix == 2           \* pixels of the arrays
MaxH == 14          \* horizon elevations range over -MaxH..MaxH degrees
Radii == {10, 13}
SunElevations == {0, 1}

Unit == Pow2(FracBits)

Top64 == Pow2(Bits64)
Top32 == Pow2(Bits32)

\* The spacing of the floats around n: the least sp, a power of two times the
\* one given, with |n| < top * sp.
RECURSIVE SpacingAt(_, _, _)
SpacingAt(n, top, sp) == IF Abs(n) < top * sp THEN sp ELSE SpacingAt(n, top, 2 * sp)

\* The float of the given precision nearest to num / den units (den > 0).
RoundRat(num, den, top) ==
    LET a   == Abs(num)
        sp  == SpacingAt(a \div den, top, 1)
        d   == den * sp
        k   == a \div d
        rem == a - k * d
        v   == IF 2 * rem > d \/ (2 * rem = d /\ k % 2 = 1) THEN (k + 1) * sp ELSE k * sp
    IN  IF num < 0 THEN -v ELSE v

Float64(n) == RoundRat(n, 1, Top64)
Float32(n) == RoundRat(n, 1, Top32)
Times(a, b) == RoundRat(a * b, Unit, Top64)
Over(a, b) == RoundRat(a * Unit, b, Top64)

\* The largest s in lo..(hi - 1) with s * s <= n.
RECURSIVE ISqrt(_, _, _)
ISqrt(n, lo, hi) ==
    IF hi - lo <= 1 THEN lo
    ELSE LET mid == (lo + hi) \div 2
         IN  IF mid * mid <= n THEN ISqrt(n, mid, hi) ELSE ISqrt(n, lo, mid)

\* np.sqrt of a value below 1, correctly rounded.
Sqrt(n) ==
    LET N  == n * Unit
        s  == ISqrt(N, 0, Unit)
        sp == SpacingAt(s, Top64, 1)
        k  == s \div sp
        m2 == 2 * k * sp + sp
    IN  IF 4 * N > m2 * m2 \/ (4 * N = m2 * m2 /\ k % 2 = 1) THEN (k + 1) * sp ELSE k * sp

\* np.pi, and the factor pi / 180 of np.radians, as floats (355/113 is pi to 7 digits)
Pi == RoundRat(355 * Unit, 113, Top64)
RadiansFactor == RoundRat(355 * Unit, 113 * 180, Top64)
Radians(d) == Times(d, RadiansFactor)

\* np.arccos at the floats of [0, 1], correctly rounded; the values are counted in
\* units of 2^-(Bits64 + 1).  Row b holds the arguments m * 2^-(b + Bits64) for the
\* mantissas m = 2^(Bits64 - 1) .. 2^Bits64 - 1, that is the floats of
\* [2^-b, 2^-(b-1)); for instance arccos(8/16) = 1.047 rounds to 1.0 = 32/32 and
\* arccos(15/16) = 0.355 to 11/32.
ArcCosRows ==
    << <<32, 32, 28, 26, 24, 20, 16, 11>>,
       <<44, 40, 40, 40, 36, 36, 36, 36>>,
       <<48, 44, 44, 44, 44, 44, 44, 44>>,
       <<48, 48, 48, 48, 48, 48, 48, 48>> >>

\* The row of q: the least b with q >= 2^-b.
RECURSIVE Binade(_, _, _)
Binade(q, b, lo) == IF q >= lo THEN b ELSE Binade(q, b + 1, lo \div 2)

ArcCos(q) ==
    IF q = Unit THEN 0
    ELSE IF q = 0 THEN Pi \div 2
    ELSE LET b == Binade(q, 1, Unit \div 2)
             m == q \div (Pow2(FracBits - b) \div (Top64 \div 2))
         IN  ArcCosRows[b][m - (Top64 \div 2) + 1] * (Unit \div (2 * Top64))

Min(a, b) == IF a <= b THEN a ELSE b

\* seg_frac of one pixel of the partial band (lines 34-39)
SegFrac(x, r_part) ==
    LET r2         == Times(r_part, r_part)
        term1      == Times(r2, ArcCos(Over(x, r_part)))
        term2      == Times(x, Sqrt(Float64(r2 - Times(x, x))))
        seg_area   == Float64(term1 - term2)
        total_area == Times(Pi, r2)
    IN  Over(seg_area, total_area)

\* vals[h_part >= 0] = seg_frac[h_part >= 0]
HiddenHalf(h) == h >= 0

\* sun_radius_deg is a scalar or an array: [array |-> FALSE, v |-> <<r>>] or
\* [array |-> TRUE, v |-> <<r1, ..., rn>>].  The arguments are in degrees.
CalculateCircularSegmentArea(sun_elev_deg, horizon_elev_deg, sun_radius_deg) ==
    LET n     == Len(horizon_elev_deg)
        r_rad == IF sun_radius_deg.array
                 THEN [i \in 1..n |-> Radians(sun_radius_deg.v[i] * Unit)]
                 ELSE Radians(sun_radius_deg.v[1] * Unit)
        h_rad == [i \in 1..n |->
                    Radians(Float64((horizon_elev_deg[i] - sun_elev_deg[i]) * Unit))]
        \* r_rad broadcast against h_rad
        R(i)  == IF sun_radius_deg.array THEN r_rad[i] ELSE r_rad
        zeros == [i \in 1..n |-> 0]
        mask_partial == [i \in 1..n |-> h_rad[i] > -R(i) /\ h_rad[i] < R(i)]
        \* if np.ndim(r_rad) > 0 and r_rad.shape == h_rad.shape: r_rad[mask_partial]
        r_part(i) == IF sun_radius_deg.array /\ Len(r_rad) = n THEN r_rad[i] ELSE r_rad
        x(i)  == Min(Abs(h_rad[i]), r_part(i))
        seg_frac(i) == SegFrac(x(i), r_part(i))
        vals(i) == IF HiddenHalf(h_rad[i]) THEN seg_frac(i)
                   ELSE IF h_rad[i] < 0 THEN Float64(Unit - seg_frac(i))
                   ELSE 0
        partial == IF \E i \in 1..n : mask_partial[i]
                   THEN [i \in 1..n |-> IF mask_partial[i] THEN Float32(vals(i)) ELSE zeros[i]]
                   ELSE zeros
        lit    == [i \in 1..n |-> IF h_rad[i] <= -R(i) THEN Unit ELSE partial[i]]
    IN  [i \in 1..n |-> IF h_rad[i] >= R(i) THEN 0 ELSE lit[i]]

Arrays(S) == [1..NPix -> S]

PhysicsInit ==
    /\ NoRun
    /\ NoLookup /\ NoGrid /\ NoWrite /\ ph_out = <<>>
    /\ ph_in \in {<<[el |-> e, hz |-> h, r |-> r]>> :
                    e \in Arrays(SunElevations), h \in Arrays(-MaxH..MaxH),
                    r \in {[array |-> FALSE, v |-> <<v>>] : v \in Radii}
                          \cup {[array |-> TRUE, v |-> v] : v \in Arrays(Radii)}}

\* engine.calculate_circular_segment_area(el_grid, horizon_grid, sun_radius)
SegmentArea ==
    /\ ph_in # <<>> /\ ph_out = <<>>
    /\ ph_out' = <<CalculateCircularSegmentArea(ph_in[1].el, ph_in[1].hz, ph_in[1].r)>>
    /\ UNCHANGED <<driver, lk_in, lk_out, ph_in, dem_in, dem_out, pk_in, pk_out>>

PhysicsSpec == PhysicsInit /\ [][SegmentArea]_vars

\* ------------------------------------------------------------------ C10
\* h and r of pixel i in degrees, and as the function compares them.
HDeg(i) == ph_in[1].hz[i] - ph_in[1].el[i]
RDeg(i) == IF ph_in[1].r.array THEN ph_in[1].r.v[i] ELSE ph_in[1].r.v[1]
HRad(i) == Radians(Float64(HDeg(i) * Unit))
RRad(i) == Radians(RDeg(i) * Unit)

\* The value the claim's cases select for pixel i.
Selected(i) ==
    IF HRad(i) <= -RRad(i) THEN Unit
    ELSE IF HRad(i) >= RRad(i) THEN 0
    ELSE IF HRad(i) >= 0 THEN Float32(SegFrac(Min(Abs(HRad(i)), RRad(i)), RRad(i)))
    ELSE Float32(Float64(Unit - SegFrac(Min(Abs(HRad(i)), RRad(i)), RRad(i))))

\* C10: for every pixel, with h = horizon_elevation - sun_elevation and r > 0
\* (a scalar or an array of the pixels' shape), the result is 1 when h <= -r,
\* 0 when h >= r, and otherwise segment_fraction when h >= 0 and
\* 1 - segment_fraction when h < 0; it always lies in [0, 1], and it is 1 at
\* h = -r, 0 at h = r and 0.5 at h = 0.
C10_CaseSelection ==
    ph_out # <<>> =>
        \A i \in 1..NPix :
            LET f == ph_out[1][i]
            IN  /\ RDeg(i) > 0
                /\ f = Selected(i)
                /\ f >= 0 /\ f <= Unit
                /\ HDeg(i) = -RDeg(i) => f = Unit
                /\ HDeg(i) = RDeg(i) => f = 0
                /\ HDeg(i) = 0 => 2 * f = Unit

\* The claim without its lower limit: the cases are selected as stated, the values
\* at the centre and at the limb are exact, and no value exceeds 1.
CasesAsSelected ==
    ph_out # <<>> =>
        \A i \in 1..NPix :
            LET f == ph_out[1][i]
            IN  /\ f = Selected(i)
                /\ HDeg(i) = -RDeg(i) => f = Unit
                /\ HDeg(i) = RDeg(i) => f = 0
                /\ HDeg(i) = 0 => 2 * f = Unit
                /\ f <= Unit

\* ============================================================= RealDEM.__init__
\* Lengths are whole metres.  The raster is north-up or south-up: the transform
\* maps column c and row r to x = a * c + x0 and y = e * r + y0.
MinDim == 3             \* the full grid has MinDim..MaxDim rows and columns
MaxDim == 6
MaxBufferSteps == 5     \* buffer_meters is 0, BufferStep, ..., MaxBufferSteps * BufferStep
BufferStep == 10000
DefaultBuffer == 50000
PixelSizes == {20000, 30000}
Origins == {0, 100000}

\* np.arange(a, b), and the indices a slice a:b selects on an axis of n (a >= 0)
Arange(a, b) == [k \in 1..Max(b - a, 0) |-> a + k - 1]
Slice(n, a, b) == Arange(a, Min(b, n))

\* int(n / d): the quotient truncated towards zero (d > 0)
IntOfQuotient(n, d) == IF n >= 0 THEN n \div d ELSE -((-n) \div d)

\* transform * (index + 0.5): the centre of a pixel; the scales are even
PixelCentre(scale, origin, index) == (scale \div 2) * (2 * index + 1) + origin

\* rasterio.warp.transform works point by point: the latitude and the longitude
\* of the projected point (x, y).
Lat(x, y) == <<"lat", x, y>>
Lon(x, y) == <<"lon", x, y>>

\* Mutant of FlipRows: the rows stay as they are.
FlipRowsNot(rows) == rows

\* rows[::-1], np.flip(rows, axis=0)
FlipRows(rows) == [k \in 1..Len(rows) |-> rows[Len(rows) + 1 - k]]

\* The object the constructor builds from the metadata; full_horizon_cube[r, c]
\* is written <<r, c>>.  With no row in the region y_coords[0] raises.
RealDEM(meta) ==
    LET full_width  == meta.width
        full_height == meta.height
        buffer_m    == IF meta.buffer_meters = <<>> THEN DefaultBuffer
                       ELSE meta.buffer_meters[1]
        pixel_size  == meta.a
        buffer_px   == IntOfQuotient(buffer_m, pixel_size)
        x_start     == buffer_px
        x_end       == full_width - buffer_px
        y_start     == buffer_px
        y_end       == full_height - buffer_px
        roi_width   == x_end - x_start
        roi_height  == y_end - y_start
        rows        == Slice(full_height, y_start, y_end)
        cols        == Slice(full_width, x_start, x_end)
        horizon_roi == [i \in 1..Len(rows) |-> [j \in 1..Len(cols) |-> <<rows[i], cols[j]>>]]
        col_indices == Arange(x_start, x_end)
        x_coords    == [j \in 1..Len(col_indices) |-> PixelCentre(meta.a, meta.x0, col_indices[j])]
        row_indices == Arange(y_start, y_end)
        y_coords    == [i \in 1..Len(row_indices) |-> PixelCentre(meta.e, meta.y0, row_indices[i])]
        \* np.meshgrid(self.x_coords, self.y_coords)
        X_grid      == [i \in 1..Len(y_coords) |-> [j \in 1..Len(x_coords) |-> x_coords[j]]]
        Y_grid      == [i \in 1..Len(y_coords) |-> [j \in 1..Len(x_coords) |-> y_coords[i]]]
        lats        == [i \in 1..roi_height |-> [j \in 1..roi_width |-> Lat(X_grid[i][j], Y_grid[i][j])]]
        lons        == [i \in 1..roi_height |-> [j \in 1..roi_width |-> Lon(X_grid[i][j], Y_grid[i][j])]]
        flip        == y_coords[1] < y_coords[Len(y_coords)]
    IN  IF Len(y_coords) = 0 THEN [err |-> "IndexError"]
        ELSE [err |-> "none", buffer_px |-> buffer_px,
              width |-> roi_width, height |-> roi_height, x_coords |-> x_coords,
              X_grid |-> X_grid, Y_grid |-> Y_grid,
              y_coords |-> IF flip THEN FlipRows(y_coords) ELSE y_coords,
              horizon_roi |-> IF flip THEN FlipRows(horizon_roi) ELSE horizon_roi,
              lats |-> IF flip THEN FlipRows(lats) ELSE lats,
              lons |-> IF flip THEN FlipRows(lons) ELSE lons]

Metas ==
    {[width |-> w, height |-> h, a |-> a, e |-> up * a, x0 |-> 0, y0 |-> y0, buffer_meters |-> b] :
        h \in MinDim..MaxDim, w \in MinDim..MaxDim, a \in PixelSizes, up \in {-1, 1},
        y0 \in Origins,
        b \in {<<>>} \cup {<<k * BufferStep>> : k \in 0..MaxBufferSteps}}

GridInit ==
    /\ NoRun
    /\ NoLookup /\ NoPhysics /\ NoWrite
    /\ dem_in \in {<<m>> : m \in {m \in Metas : m.width >= m.height}}
    /\ dem_out = <<>>

\* dem = RealDEM(meta_path, mask_path)
Construct ==
    /\ dem_in # <<>> /\ dem_out = <<>>
    /\ dem_out' = <<RealDEM(dem_in[1])>>
    /\ UNCHANGED <<driver, lk_in, lk_out, ph_in, ph_out, dem_in, pk_in, pk_out>>

GridSpec == GridInit /\ [][Construct]_vars

Built == dem_out # <<>> /\ dem_out[1].err = "none"

\* ------------------------------------------------------------------ C11
\* C11: after the construction, for either native row order of the raster, the
\* y coordinates are strictly decreasing, and row i of the horizon profiles, of
\* the latitudes and of the longitudes is the source row whose y coordinate is
\* y_coords[i].
C11_NorthToSouth ==
    Built =>
        LET dem == dem_out[1]
            m   == dem_in[1]
        IN  /\ \A i \in 1..(Len(dem.y_coords) - 1) : dem.y_coords[i] > dem.y_coords[i + 1]
            /\ Len(dem.horizon_roi) = Len(dem.y_coords)
            /\ Len(dem.lats) = Len(dem.y_coords)
            /\ Len(dem.lons) = Len(dem.y_coords)
            /\ \A i \in 1..Len(dem.y_coords) : \A j \in 1..Len(dem.x_coords) :
                /\ PixelCentre(m.e, m.y0, dem.horizon_roi[i][j][1]) = dem.y_coords[i]
                /\ PixelCentre(m.a, m.x0, dem.horizon_roi[i][j][2]) = dem.x_coords[j]
                /\ dem.lats[i][j] = Lat(dem.x_coords[j], dem.y_coords[i])
                /\ dem.lons[i][j] = Lon(dem.x_coords[j], dem.y_coords[i])

\* A south-up raster of several rows, built and flipped.
C11_Witness ==
    /\ Built /\ dem_in[1].e > 0 /\ dem_out[1].height >= 2
    /\ dem_out[1].horizon_roi[1][1][1] > dem_out[1].horizon_roi[2][1][1]

\* ------------------------------------------------------------------ C12
\* round(n / d), halves to the even neighbour (n >= 0, d > 0)
RoundOfQuotient(n, d) ==
    LET q == n \div d
        r == n % d
    IN  IF 2 * r > d \/ (2 * r = d /\ q % 2 = 1) THEN q + 1 ELSE q

\* C12: the buffer in pixels is round(buffer distance / pixel scale), and the
\* exposed grid is the rows and columns [buffer, full_dim - buffer) of the full
\* grid, (full_width - 2 * buffer) by (full_height - 2 * buffer) pixels.
C12_InteriorRectangle ==
    Built =>
        LET dem == dem_out[1]
            m   == dem_in[1]
            buffer_m == IF m.buffer_meters = <<>> THEN DefaultBuffer ELSE m.buffer_meters[1]
            buffer == RoundOfQuotient(buffer_m, m.a)
        IN  /\ dem.buffer_px = buffer
            /\ dem.width = m.width - 2 * buffer
            /\ dem.height = m.height - 2 * buffer
            /\ Len(dem.horizon_roi) = dem.height
            /\ \A i \in 1..Len(dem.horizon_roi) : Len(dem.horizon_roi[i]) = dem.width
            /\ {dem.horizon_roi[i][j] : i \in 1..dem.height, j \in 1..dem.width}
                 = (buffer..(m.height - buffer - 1)) \X (buffer..(m.width - buffer - 1))

\* The same with the quotient truncated, as int() does: the code's rectangle.
InteriorRectangleTruncated ==
    Built =>
        LET dem == dem_out[1]
            m   == dem_in[1]
            buffer_m == IF m.buffer_meters = <<>> THEN DefaultBuffer ELSE m.buffer_meters[1]
            buffer == buffer_m \div m.a
        IN  /\ dem.buffer_px = buffer
            /\ dem.width = m.width - 2 * buffer
            /\ dem.height = m.height - 2 * buffer
            /\ {dem.horizon_roi[i][j] : i \in 1..dem.height, j \in 1..dem.width}
                 = (buffer..(m.height - buffer - 1)) \X (buffer..(m.width - buffer - 1))

\* ============================================ nc_illum[idx, :, :] = illum_map
\* The library packs what is assigned to a variable that has scale_factor and
\* add_offset: (data - add_offset) / scale_factor, np.around for an integer
\* variable, then the cast to the variable's type.  The frame is float32 and the
\* two attributes are float64 scalars; whether the arithmetic is done in float32
\* or in float64 depends on the numpy in use.  Values are counted in units of
\* 2^-PackFracBits; float32 is modelled with PackBits significant bits; float64,
\* whose rounding error is far below the spacing of the float32 values, as exact.
PackBits == 13
PackFracBits == 15
ScaleSteps == 254       \* scale_factor = 1.0 / 254.0
FillValue == -128
PackTop == Pow2(PackBits)
PackUnit == Pow2(PackFracBits)
AddOffset == PackUnit \div 2

\* Mutant of Around: the fraction is dropped, as a cast alone would.
AroundTowardsZero(num, den) == IF num >= 0 THEN num \div den ELSE -((-num) \div den)

\* np.around of num / den (den > 0): to the nearest integer, halves to the even one
Around(num, den) ==
    LET a == Abs(num)
        q == a \div den
        r == a % den
        n == IF 2 * r > den \/ (2 * r = den /\ q % 2 = 1) THEN q + 1 ELSE q
    IN  IF num < 0 THEN -n ELSE n

\* astype('i1'): the low eight bits, signed
AsInt8(n) == ((n + 128) % 256) - 128

\* _pack in float32 arithmetic
PackSingle(v) ==
    LET scale_factor == RoundRat(PackUnit, ScaleSteps, PackTop)
        shifted      == RoundRat(v - AddOffset, 1, PackTop)
        data         == RoundRat(shifted * PackUnit, scale_factor, PackTop)
    IN  AsInt8(Around(data, PackUnit))

\* _pack in float64 arithmetic
PackDouble(v) == AsInt8(Around((v - AddOffset) * ScaleSteps, PackUnit))

Pack(v, arithmetic) == IF arithmetic = "float32" THEN PackSingle(v) ELSE PackDouble(v)

\* The float32 fractions of [0, 1]
Fractions == {n \in 0..PackUnit : RoundRat(n, 1, PackTop) = n}

WriteInit ==
    /\ NoRun
    /\ NoLookup /\ NoPhysics /\ NoGrid
    /\ pk_in \in {<<[v |-> v, arithmetic |-> a]>> : v \in Fractions, a \in {"float32", "float64"}}
    /\ pk_out = <<>>

\* nc_illum[idx, :, :] = illum_map, for one pixel
AssignFrame ==
    /\ pk_in # <<>> /\ pk_out = <<>>
    /\ pk_out' = <<Pack(pk_in[1].v, pk_in[1].arithmetic)>>
    /\ UNCHANGED <<driver, lk_in, lk_out, ph_in, ph_out, dem_in, dem_out, pk_in>>

WriteSpec == WriteInit /\ [][AssignFrame]_vars

\* ------------------------------------------------------------------ C13
\* 508 * |unpack(packed) - v| in units, with unpack(p) = p / 254 + 0.5
RoundTripError508 ==
    Abs(2 * pk_out[1] * PackUnit + ScaleSteps * PackUnit - 2 * ScaleSteps * pk_in[1].v)

\* pack(0) = -127, pack(1) = 127, every packed value is in -127..127 and none is
\* the no-data sentinel.
PackedRange ==
    /\ pk_out[1] \in (-127)..127
    /\ pk_out[1] # FillValue
    /\ pk_in[1].v = 0 => pk_out[1] = -127
    /\ pk_in[1].v = PackUnit => pk_out[1] = 127

\* C13 as stated: every fraction v in [0, 1] is packed to a signed 8-bit integer
\* in [-127, 127], with pack(0) = -127 and pack(1) = 127 and never the sentinel
\* -128, and unpack(pack(v)) differs from v by at most half a packing step, 1/508.
C13_Original ==
    pk_out # <<>> => PackedRange /\ RoundTripError508 <= PackUnit

\* C13 amended: the same, with the round trip within 1/508 when the library
\* packs in float64, and within 1/508 + 2^(1 - p) when it packs in a format of
\* p significant bits.
C13_RoundTrip ==
    pk_out # <<>> =>
        /\ PackedRange
        /\ pk_in[1].arithmetic = "float64" => RoundTripError508 <= PackUnit
        /\ pk_in[1].arithmetic = "float32" =>
              RoundTripError508 <= PackUnit + (2 * 2 * ScaleSteps * PackUnit) \div PackTop

\* A value next to a tie is packed in float32 arithmetic and lands more than
\* half a step from its packed value.
C13_Witness ==
    /\ pk_out # <<>> /\ pk_in[1].arithmetic = "float32"
    /\ RoundTripError508 > PackUnit

\* ------------------------------------------------------------------ C14
\* C14: whenever the sink is closed (after completion, after an interruption or
\* an exception at any point of the loop body), the series holds as many
\* elapsed-time values as frames: every time value written has its frame's
\* pixel data written too.
C14_NoTimeWithoutFrame ==
    sink = "closed" =>
        /\ Cardinality({k \in 1..Len(nc_times) : nc_times[k] # FILL})
             = Cardinality({k \in 1..Len(nc_illum) : nc_illum[k] # FILL})
        /\ \A k \in 1..Len(nc_times) :
              nc_times[k] # FILL => k <= Len(nc_illum) /\ nc_illum[k] # FILL

==========================================================================
